---- MODULE Spec2Model ----
(***************************************************************************)
(* LocalMind (src/main.py): the in-memory DocumentStore (a TF-IDF vector   *)
(* index over a small corpus) and the HTTP handlers that drive it.         *)
(*                                                                         *)
(* Texts are sequences of characters; a term is a sequence of characters.  *)
(* Floating point weights and scores are modelled in fixed point, One      *)
(* standing for 1.0; idf values are ln((1+N)/(1+df)) + 1 rounded to the    *)
(* fixed-point grid.  TfidfVectorizer, cosine_similarity and argsort are   *)
(* modelled by what scikit-learn (1.x) and numpy do on these inputs: a     *)
(* fit_transform on texts without any token raises ValueError after it has *)
(* replaced the fitted idf by an unfitted one, and the default argsort     *)
(* gives no guarantee for equal keys (both orders are modelled).           *)
(***************************************************************************)
EXTENDS Integers, Sequences, FiniteSets, TLC

VARIABLES
    documents,          \* DocumentStore.documents: dict in insertion order, as a sequence of documents
    search_history,     \* DocumentStore.search_history
    vocabulary_,        \* vectorizer.vocabulary_ (its terms), or NoVocabulary
    idf_,               \* the fitted TfidfTransformer's idf per term, or NotFitted
    document_vectors,   \* DocumentStore.document_vectors: NoVectors, or one row per fitted text
    document_ids,       \* DocumentStore.document_ids
    now,                \* the clock read by datetime.now()
    request,            \* the request handled last
    response,           \* what the handler answered
    argsortTies,        \* the build: how numpy's default (unstable) argsort orders equal keys
    removed,            \* history: the documents deleted and not added again since
    repeated,           \* history: the request handled last repeats the one before it
    bulk                \* the bulk_upload calls in flight: of each its files, those still to do, its two lists

vars == <<documents, search_history, vocabulary_, idf_, document_vectors,
          document_ids, now, request, response, argsortTies,
          removed, repeated, bulk>>

----------------------------------------------------------------------------
(* Bounds and input sets *)

\* the clock stops the model after MaxTime - 1 timestamped calls (add, search)
MaxTime == 4

\* Python's None, as a field of a record
None == "None"

\* document_vectors = None: a fitted matrix has a row per text and is never empty
NoVectors == <<>>

\* the vectorizer has no vocabulary_ attribute: a fitted vocabulary is never empty
NoVocabulary == {}

\* the TfidfTransformer is not fitted: a fitted idf has a value per term
NotFitted == <<>>

Ids == {"docA", "docB"}

co == <<"c", "o">>
wi == <<"w", "i">>
pl == <<"p", "l">>
Cocowi == <<"C", "o", " ", "c", "o", " ", "w", "i">>
a1 == <<"a">>

\* what the ingestion layer hands to add_document besides the id; every text
\* is non-empty, and a1 has no token of two or more word characters
Payloads == { [title |-> "t1", content |-> co,     metadata |-> "m1"],
              [title |-> "t2", content |-> wi,     metadata |-> "m2"],
              [title |-> "t1", content |-> Cocowi, metadata |-> "m2"],
              [title |-> "t2", content |-> a1,     metadata |-> "m1"] }

Contents == { p.content : p \in Payloads }

\* the text of every document, and a text whose only term is in no document
Queries == Contents \cup { pl }

\* max_results as the search contract has it
Limits == {1, 2}

\* the search requests, <<query, max_results, include_web>>: every query with
\* every limit; SearchRequest sets no lower bound on max_results, so 0 and -1
\* too; and requests that ask for the mock web result
SearchRequests == { <<q, k, FALSE>> : q \in Queries, k \in Limits }
                  \cup { <<co, k, FALSE>> : k \in {-1, 0} }
                  \cup { <<q, 2, TRUE>> : q \in {co, pl} }

----------------------------------------------------------------------------
(* Sequences *)

Range(s) == { s[i] : i \in DOMAIN s }

Max(a, b) == IF a >= b THEN a ELSE b

Min(a, b) == IF a <= b THEN a ELSE b

RECURSIVE SumOver(_, _)
SumOver(f, S) ==
    IF S = {} THEN 0
    ELSE LET x == CHOOSE y \in S : TRUE
         IN  f[x] + SumOver(f, S \ {x})

\* Python's s[start:] for any integer start
PySliceFrom(s, start) ==
    LET n == Len(s)
        b == IF start >= 0 THEN Min(start, n) ELSE Max(n + start, 0)
    IN  SubSeq(s, b + 1, n)

\* Python's s[start:stop] for any integers
PySlice(s, start, stop) ==
    LET n == Len(s)
        b == IF start >= 0 THEN Min(start, n) ELSE Max(n + start, 0)
        e == IF stop >= 0 THEN Min(stop, n) ELSE Max(n + stop, 0)
    IN  SubSeq(s, b + 1, e)

\* Python's s[::-1]
PyReverse(s) == [i \in 1 .. Len(s) |-> s[Len(s) + 1 - i]]

----------------------------------------------------------------------------
(* TfidfVectorizer: tokenisation *)

\* str.lower() on one character
LowerChar(c) == IF c = "C" THEN "c" ELSE c

\* str.lower()
Lower(text) == [i \in 1 .. Len(text) |-> LowerChar(text[i])]

\* \w of the token pattern
IsWordChar(c) == c # " "

\* re.findall(r"(?u)\b\w\w+\b", text) from position i on: the maximal runs
\* of word characters that are at least two characters long, in order
RECURSIVE FindTokens(_, _)
FindTokens(text, i) ==
    IF \A j \in i .. Len(text) : ~IsWordChar(text[j]) THEN <<>>
    ELSE LET b == CHOOSE j \in i .. Len(text) :
                      /\ IsWordChar(text[j])
                      /\ \A k \in i .. j - 1 : ~IsWordChar(text[k])
             e == CHOOSE j \in b .. Len(text) :
                      /\ \A k \in b .. j : IsWordChar(text[k])
                      /\ j = Len(text) \/ ~IsWordChar(text[j + 1])
         IN  (IF e - b + 1 >= 2 THEN <<SubSeq(text, b, e)>> ELSE <<>>)
                 \o FindTokens(text, e + 1)

\* build_analyzer(): preprocess (lowercase) then tokenize
Analyze(text) == FindTokens(Lower(text), 1)

\* raw count of a term in a text
Count(term, text) ==
    LET toks == Analyze(text)
    IN  Cardinality({ i \in DOMAIN toks : toks[i] = term })

----------------------------------------------------------------------------
(* Fixed-point arithmetic standing for float64 *)

\* 1.0
One == 1000

\* floor of the square root, by bisection
RECURSIVE SqrtBetween(_, _, _)
SqrtBetween(n, lo, hi) ==
    IF lo >= hi THEN lo
    ELSE LET mid == (lo + hi + 1) \div 2
         IN  IF mid * mid <= n THEN SqrtBetween(n, mid, hi)
                               ELSE SqrtBetween(n, lo, mid - 1)

Sqrt(n) == SqrtBetween(n, 0, Min(n, 46340))

\* np.log(k) in millionths, k = 1 .. 64
LnMicro ==
    <<0, 693147, 1098612, 1386294, 1609438, 1791759, 1945910, 2079442,
      2197225, 2302585, 2397895, 2484907, 2564949, 2639057, 2708050, 2772589,
      2833213, 2890372, 2944439, 2995732, 3044522, 3091042, 3135494, 3178054,
      3218876, 3258097, 3295837, 3332205, 3367296, 3401197, 3433987, 3465736,
      3496508, 3526361, 3555348, 3583519, 3610918, 3637586, 3663562, 3688879,
      3713572, 3737670, 3761200, 3784190, 3806662, 3828641, 3850148, 3871201,
      3891820, 3912023, 3931826, 3951244, 3970292, 3988984, 4007333, 4025352,
      4043051, 4060443, 4077537, 4094345, 4110874, 4127134, 4143135, 4158883>>

\* np.log((1 + n_samples) / (1 + df)) + 1, smooth_idf=True, to the nearest
\* thousandth
Idf(n_samples, df) ==
    ((LnMicro[1 + n_samples] - LnMicro[1 + df] + 500) \div 1000) + One

\* the entries a sparse row stores
Stored(row) == { t \in DOMAIN row : row[t] # 0 }

\* sklearn.preprocessing.normalize(X, norm="l2") on one row of the sparse
\* matrix: the sum runs over the stored entries; a zero row stays zero
Normalize(row) ==
    LET sq   == [t \in Stored(row) |-> row[t] * row[t]]
        norm == Sqrt(SumOver(sq, Stored(row)))
    IN  IF norm = 0 THEN row
        ELSE [t \in DOMAIN row |-> (row[t] * One) \div norm]

\* the dot product of two rows over the same vocabulary
Dot(a, b) ==
    LET both == Stored(a) \cap Stored(b)
        prod == [t \in both |-> a[t] * b[t]]
    IN  SumOver(prod, both) \div One

\* sklearn.metrics.pairwise.cosine_similarity of one query row with one
\* document row: both are normalised, then multiplied
CosineSimilarity(q, d) == Dot(Normalize(q), Normalize(d))

----------------------------------------------------------------------------
(* TfidfVectorizer(max_features=1000): fit_transform and transform *)

max_features == 1000

\* CountVectorizer._count_vocab: every term of every text
AllTerms(texts) == UNION { Range(Analyze(texts[i])) : i \in DOMAIN texts }

\* total count of a term over the texts
TermFrequency(term, texts) ==
    LET cnt == [i \in DOMAIN texts |-> Count(term, texts[i])]
    IN  SumOver(cnt, DOMAIN texts)

\* the characters of terms in code point order
Alphabet ==
    <<"0", "1", "2", "3", "4", "5", "6", "7", "8", "9",
      "a", "b", "c", "d", "e", "f", "g", "h", "i", "j", "k", "l", "m",
      "n", "o", "p", "q", "r", "s", "t", "u", "v", "w", "x", "y", "z">>

\* ord(c)
Code(c) == CHOOSE i \in DOMAIN Alphabet : Alphabet[i] = c

\* CountVectorizer._sort_features: term t gets a lower feature index than
\* term u, the order of Python strings
TermBefore(t, u) ==
    LET differ == { i \in 1 .. Min(Len(t), Len(u)) : t[i] # u[i] }
    IN  IF differ = {} THEN Len(t) < Len(u)
        ELSE LET k == CHOOSE i \in differ : \A j \in differ : i <= j
             IN  Code(t[k]) < Code(u[k])

\* CountVectorizer._count_vocab and X.sum(axis=0): every text analysed once,
\* then the count of each term over the corpus, as an array of values
TermCounts(terms, texts) ==
    LET docs == [i \in DOMAIN texts |-> Analyze(texts[i])] @@ <<>>
    IN  [t \in terms |->
            SumOver([i \in DOMAIN docs |->
                        Cardinality({ k \in DOMAIN docs[i] : docs[i][k] = t })],
                    DOMAIN docs)] @@ <<>>

\* LimitFeatures that cuts by feature index alone, whatever the frequencies
LimitFeaturesByIndex(terms, texts) ==
    IF Cardinality(terms) <= max_features THEN { terms }
    ELSE { { t \in terms :
               Cardinality({ u \in terms : TermBefore(u, t) }) < max_features } }

\* CountVectorizer._limit_features: the terms (-tfs).argsort()[:max_features]
\* keeps, tfs the count of each term over the corpus.  The default argsort
\* is not stable and which terms of equal count come first differs between
\* builds of numpy: every vocabulary that holds the terms counted more often
\* than the max_features-th and, of those counted as often, as many as fit
LimitFeatures(terms, texts) ==
    IF Cardinality(terms) <= max_features THEN { terms }
    ELSE LET tfs   == TermCounts(terms, texts)
             cut   == CHOOSE c \in Range(tfs) :
                         /\ Cardinality({ t \in terms : tfs[t] >= c }) >= max_features
                         /\ Cardinality({ t \in terms : tfs[t] > c }) < max_features
             above == { t \in terms : tfs[t] > cut }
             tied  == { t \in terms : tfs[t] = cut }
         IN  { above \cup pick :
                 pick \in { some \in SUBSET tied :
                              Cardinality(some) = max_features - Cardinality(above) } }

\* the vocabularies a fit can learn from the texts
FitVocabulary(texts) == LimitFeatures(AllTerms(texts), texts)

\* fit_transform raises ValueError("empty vocabulary; ...") on these texts
FitFails(texts) == AllTerms(texts) = {}

\* the number of texts that contain the term, seen[i] the terms of text i
DocumentFrequency(term, seen) ==
    Cardinality({ i \in DOMAIN seen : term \in seen[i] })

\* TfidfTransformer.fit: the idf of every term of the vocabulary, every text
\* analysed once, as an array of values
FitIdf(vocab, texts) ==
    LET seen == [i \in DOMAIN texts |-> Range(Analyze(texts[i]))] @@ <<>>
    IN  [t \in vocab |-> Idf(Len(texts), DocumentFrequency(t, seen))] @@ <<>>

\* TfidfVectorizer.transform of one text with a fitted vocabulary and idf:
\* raw counts times idf, then the l2 norm; terms outside the vocabulary are dropped
TransformOne(vocab, idf, text) ==
    LET toks == Analyze(text)
        seen == Range(toks)
    IN  Normalize([t \in vocab |->
                      IF t \in seen
                      THEN Cardinality({ k \in DOMAIN toks : toks[k] = t }) * idf[t]
                      ELSE 0] @@ <<>>)

\* the matrix fit_transform returns with the vocabulary it learned: one row
\* per text
FitTransform(vocab, texts) ==
    LET idf == FitIdf(vocab, texts)
    IN  [i \in DOMAIN texts |-> TransformOne(vocab, idf, texts[i])]

----------------------------------------------------------------------------
(* DocumentStore *)

DocIds(docs) == { docs[i].id : i \in DOMAIN docs }

\* the position of the key in the dict
IndexOf(docs, id) == CHOOSE i \in DOMAIN docs : docs[i].id = id

\* PutDocument on a list instead of a dict: the document is always appended
PutDocumentAppend(docs, doc) == Append(docs, doc)

\* self.documents[doc_id] = {...}: a new key goes last, an existing key keeps its place
PutDocument(docs, doc) ==
    IF doc.id \in DocIds(docs)
    THEN [docs EXCEPT ![IndexOf(docs, doc.id)] = doc]
    ELSE Append(docs, doc)

\* DelDocument that deletes from a copy: the corpus keeps the document
DelDocumentFromCopy(docs, id) == docs

\* del self.documents[doc_id]
DelDocument(docs, id) ==
    LET k == IndexOf(docs, id)
    IN  [i \in 1 .. Len(docs) - 1 |-> IF i < k THEN docs[i] ELSE docs[i + 1]]

\* the texts and the ids collected by the loop of _rebuild_vectors
TextsOf(docs) == [i \in DOMAIN docs |-> docs[i].content]

IdsOf(docs) == [i \in DOMAIN docs |-> docs[i].id]

\* _rebuild_vectors raises on this corpus
RebuildRaises(docs) == docs # <<>> /\ FitFails(TextsOf(docs))

\* DocumentStore._rebuild_vectors on the corpus docs: nothing on an empty
\* corpus; otherwise document_ids is reset first and the fit follows.
\* fit_transform first replaces its TfidfTransformer by an unfitted one and
\* then counts the terms, so a fit that raises leaves document_vectors and
\* vocabulary_ as they were and the idf unfitted
RebuildVectors(docs) ==
    IF docs = <<>>
    THEN UNCHANGED <<document_ids, document_vectors, vocabulary_, idf_>>
    ELSE /\ document_ids' = IdsOf(docs)
         /\ IF FitFails(TextsOf(docs))
            THEN /\ UNCHANGED <<document_vectors, vocabulary_>>
                 /\ idf_' = NotFitted
            ELSE \E vocab \in FitVocabulary(TextsOf(docs)) :
                    /\ vocabulary_' = vocab
                    /\ idf_' = FitIdf(vocab, TextsOf(docs))
                    /\ document_vectors' = FitTransform(vocab, TextsOf(docs))

\* similarities of the query with every row of document_vectors
Similarities(query) ==
    LET q == TransformOne(vocabulary_, idf_, query)
    IN  [i \in DOMAIN document_vectors |-> CosineSimilarity(q, document_vectors[i])]

\* argsort puts index i before index j
SortsBefore(sims, i, j) ==
    \/ sims[i] < sims[j]
    \/ /\ sims[i] = sims[j]
       /\ IF argsortTies = "stable" THEN i < j ELSE i > j

\* similarities.argsort(): the indices in ascending order of similarity
ArgSort(sims) ==
    LET rank(i) == 1 + Cardinality({ j \in DOMAIN sims : SortsBefore(sims, j, i) })
    IN  [r \in DOMAIN sims |-> CHOOSE i \in DOMAIN sims : rank(i) = r]

\* TopIndices that slices the head of the argsort: the lowest similarities
TopIndicesLowest(sims, max_results) ==
    PyReverse(PySlice(ArgSort(sims), 0, max_results))

\* TopIndices without the [::-1]
TopIndicesAscending(sims, max_results) ==
    PySliceFrom(ArgSort(sims), -max_results)

\* similarities.argsort()[-max_results:][::-1]
TopIndices(sims, max_results) ==
    PyReverse(PySliceFrom(ArgSort(sims), -max_results))

\* Kept with the filter similarities[idx] >= 0
KeptNonNegative(sims, top) == SelectSeq(top, LAMBDA idx : sims[idx] >= 0)

\* the indices of top_indices whose similarity passes the filter, in order
Kept(sims, top) == SelectSeq(top, LAMBDA idx : sims[idx] > 0)

\* the loop of search raises: IndexError on document_ids[idx], KeyError on
\* self.documents[doc_id]
LoopRaises(kept) ==
    \E k \in DOMAIN kept :
        \/ kept[k] > Len(document_ids)
        \/ document_ids[kept[k]] \notin DocIds(documents)

\* the document copy with its score
Scored(doc, score) ==
    [id |-> doc.id, title |-> doc.title, content |-> doc.content,
     metadata |-> doc.metadata, added_at |-> doc.added_at,
     score |-> score, type |-> None]

\* LoopResults that reads the score at the loop counter, not at idx
LoopResultsByPosition(sims, kept) ==
    [k \in DOMAIN kept |->
        Scored(documents[IndexOf(documents, document_ids[kept[k]])], sims[k])]

\* the results list built by the loop of search
LoopResults(sims, kept) ==
    [k \in DOMAIN kept |->
        Scored(documents[IndexOf(documents, document_ids[kept[k]])], sims[kept[k]])]

\* SearchReturnsEarly without the check of self.documents
SearchReturnsEarlyVectorsOnly == document_vectors = NoVectors

\* search returns [] before anything else
SearchReturnsEarly == documents = <<>> \/ document_vectors = NoVectors

\* StoreSearch that answers a query already in the history with nothing
StoreSearchSkipsRepeated(query, max_results) ==
    IF SearchReturnsEarly \/ \E h \in DOMAIN search_history : search_history[h].query = query
    THEN [raises |-> FALSE, results |-> <<>>]
    ELSE IF idf_ = NotFitted THEN [raises |-> TRUE, results |-> <<>>]
    ELSE LET sims == Similarities(query)
             kept == Kept(sims, TopIndices(sims, max_results))
         IN  IF LoopRaises(kept) THEN [raises |-> TRUE, results |-> <<>>]
             ELSE [raises |-> FALSE, results |-> LoopResults(sims, kept)]

\* DocumentStore.search: what it returns, or that it raises (transform on an
\* unfitted idf, or the loop)
StoreSearch(query, max_results) ==
    IF SearchReturnsEarly THEN [raises |-> FALSE, results |-> <<>>]
    ELSE IF idf_ = NotFitted THEN [raises |-> TRUE, results |-> <<>>]
    ELSE LET sims == Similarities(query)
             kept == Kept(sims, TopIndices(sims, max_results))
         IN  IF LoopRaises(kept) THEN [raises |-> TRUE, results |-> <<>>]
             ELSE [raises |-> FALSE, results |-> LoopResults(sims, kept)]

\* GetStats that reports the first five entries of the history
GetStatsOldestFive ==
    [total_documents |-> Len(documents),
     total_searches  |-> Len(search_history),
     storage_used_kb |-> (SumOver([i \in DOMAIN documents |-> Len(documents[i].content)],
                                  DOMAIN documents) * One) \div 1024,
     unique_terms    |-> IF vocabulary_ = NoVocabulary THEN 0 ELSE Cardinality(vocabulary_),
     recent_searches |-> PyReverse(PySlice(search_history, 0, 5))]

\* GetStats that counts document_ids instead of documents
GetStatsFromIds ==
    [total_documents |-> Len(document_ids),
     total_searches  |-> Len(search_history),
     storage_used_kb |-> (SumOver([i \in DOMAIN documents |-> Len(documents[i].content)],
                                  DOMAIN documents) * One) \div 1024,
     unique_terms    |-> IF vocabulary_ = NoVocabulary THEN 0 ELSE Cardinality(vocabulary_),
     recent_searches |-> PyReverse(PySliceFrom(search_history, -5))]

\* DocumentStore.get_stats
GetStats ==
    [total_documents |-> Len(documents),
     total_searches  |-> Len(search_history),
     storage_used_kb |-> (SumOver([i \in DOMAIN documents |-> Len(documents[i].content)],
                                  DOMAIN documents) * One) \div 1024,
     unique_terms    |-> IF vocabulary_ = NoVocabulary THEN 0 ELSE Cardinality(vocabulary_),
     recent_searches |-> PyReverse(PySliceFrom(search_history, -5))]

----------------------------------------------------------------------------
(* The handlers *)

\* no bulk_upload call is in flight
NoBulk == <<>>

NoStats == [total_documents |-> 0, total_searches |-> 0, storage_used_kb |-> 0,
            unique_terms |-> 0, recent_searches |-> <<>>]

Reply(status, results, total, stats) ==
    [status |-> status, results |-> results, total |-> total, stats |-> stats]

Init ==
    /\ documents = <<>>
    /\ search_history = <<>>
    /\ vocabulary_ = NoVocabulary
    /\ idf_ = NotFitted
    /\ document_vectors = NoVectors
    /\ document_ids = <<>>
    /\ now = 1
    /\ request = [op |-> "init", args |-> <<>>]
    /\ response = Reply(200, <<>>, 0, NoStats)
    /\ argsortTies \in {"stable", "reversed"}
    /\ removed = {}
    /\ repeated = FALSE
    /\ bulk = NoBulk

\* the request is recorded, and whether it repeats the one before it
Receive(op, args) ==
    /\ request' = [op |-> op, args |-> args]
    /\ repeated' = (request.op = op /\ request.args = args)

\* the terms of a text that are in no other document of the corpus
OwnTerms(docs, id) ==
    Range(Analyze(docs[IndexOf(docs, id)].content))
        \ AllTerms(TextsOf(DelDocument(docs, id)))

\* AddDocument that keeps the added_at of a document it replaces
AddDocumentKeepsAddedAt(id, p) ==
    /\ Receive("add", <<id, p>>)
    /\ now' = now + 1
    /\ documents' = PutDocument(documents,
                        [id |-> id, title |-> p.title, content |-> p.content,
                         metadata |-> p.metadata,
                         added_at |-> IF id \in DocIds(documents)
                                      THEN documents[IndexOf(documents, id)].added_at
                                      ELSE now])
    /\ RebuildVectors(documents')
    /\ response' = Reply(IF RebuildRaises(documents') THEN 500 ELSE 200, <<>>, 0, NoStats)
    /\ removed' = { r \in removed : r.id # id }
    /\ UNCHANGED <<search_history, argsortTies, bulk>>

\* DocumentStore.add_document as called by upload_file, bulk_upload and
\* startup_event; an exception of the rebuild reaches the caller (500)
AddDocument(id, p) ==
    /\ Receive("add", <<id, p>>)
    /\ now' = now + 1
    /\ documents' = PutDocument(documents,
                        [id |-> id, title |-> p.title, content |-> p.content,
                         metadata |-> p.metadata, added_at |-> now])
    /\ RebuildVectors(documents')
    /\ response' = Reply(IF RebuildRaises(documents') THEN 500 ELSE 200, <<>>, 0, NoStats)
    /\ removed' = { r \in removed : r.id # id }
    /\ UNCHANGED <<search_history, argsortTies, bulk>>

\* DeleteDocument with documents.pop(doc_id, None): no 404 for an unknown id
DeleteDocumentLenient(id) ==
    /\ Receive("delete", <<id>>)
    /\ documents' = IF id \in DocIds(documents) THEN DelDocument(documents, id)
                    ELSE documents
    /\ RebuildVectors(documents')
    /\ response' = Reply(IF RebuildRaises(documents') THEN 500 ELSE 200, <<>>, 0, NoStats)
    /\ removed' = IF id \in DocIds(documents)
                  THEN removed \cup {[id |-> id, terms |-> OwnTerms(documents, id)]}
                  ELSE removed
    /\ UNCHANGED <<search_history, now, argsortTies, bulk>>

\* delete_document
DeleteDocument(id) ==
    /\ Receive("delete", <<id>>)
    /\ IF id \notin DocIds(documents)
       THEN /\ response' = Reply(404, <<>>, 0, NoStats)
            /\ UNCHANGED <<documents, document_ids, document_vectors, vocabulary_,
                           idf_, removed>>
       ELSE /\ documents' = DelDocument(documents, id)
            /\ RebuildVectors(documents')
            /\ response' = Reply(IF RebuildRaises(documents') THEN 500 ELSE 200,
                                 <<>>, 0, NoStats)
            /\ removed' = removed \cup {[id |-> id, terms |-> OwnTerms(documents, id)]}
    /\ UNCHANGED <<search_history, now, argsortTies, bulk>>

\* the mock web result appended when include_web is set
WebResult ==
    [id |-> None, title |-> "Web", content |-> "Web", metadata |-> None,
     added_at |-> 0, score |-> (8 * One) \div 10, type |-> "web"]

\* Search that also adds the terms of the query to the vocabulary
SearchLearnsQuery(query, max_results, include_web) ==
    /\ Receive("search", <<query, max_results, include_web>>)
    /\ IF SearchReturnsEarly
       THEN UNCHANGED <<search_history, now, vocabulary_>>
       ELSE /\ now' = now + 1
            /\ search_history' = Append(search_history, [query |-> query, timestamp |-> now])
            /\ vocabulary_' = vocabulary_ \cup Range(Analyze(query))
    /\ LET found   == StoreSearch(query, max_results)
           results == found.results \o (IF include_web THEN <<WebResult>> ELSE <<>>)
       IN  response' = IF found.raises THEN Reply(500, <<>>, 0, NoStats)
                       ELSE Reply(200, results, Len(results), NoStats)
    /\ UNCHANGED <<documents, document_ids, document_vectors, idf_,
                   argsortTies, removed, bulk>>

\* the search endpoint around DocumentStore.search; the history entry is
\* appended before the query is transformed
Search(query, max_results, include_web) ==
    /\ Receive("search", <<query, max_results, include_web>>)
    /\ IF SearchReturnsEarly
       THEN UNCHANGED <<search_history, now>>
       ELSE /\ now' = now + 1
            /\ search_history' = Append(search_history, [query |-> query, timestamp |-> now])
    /\ LET found   == StoreSearch(query, max_results)
           results == found.results \o (IF include_web THEN <<WebResult>> ELSE <<>>)
       IN  response' = IF found.raises THEN Reply(500, <<>>, 0, NoStats)
                       ELSE Reply(200, results, Len(results), NoStats)
    /\ UNCHANGED <<documents, document_ids, document_vectors, vocabulary_, idf_,
                   argsortTies, removed, bulk>>

\* SortNewestFirst without the sort: the values of the dict, last inserted first
SortLastInsertedFirst(docs) == PyReverse(docs)

\* docs.sort(key=added_at, reverse=True): stable, equal keys keep their order
SortNewestFirst(docs) ==
    LET before(i, j) == \/ docs[i].added_at > docs[j].added_at
                        \/ docs[i].added_at = docs[j].added_at /\ i < j
        rank(i) == 1 + Cardinality({ j \in DOMAIN docs : before(j, i) })
    IN  [r \in DOMAIN docs |-> docs[CHOOSE i \in DOMAIN docs : rank(i) = r]]

\* docs[skip:skip+limit] of the sorted documents
ListPage(skip, limit) == PySlice(SortNewestFirst(documents), skip, skip + limit)

\* list_documents
ListDocuments(skip, limit) ==
    /\ Receive("list", <<skip, limit>>)
    /\ response' = Reply(200, ListPage(skip, limit), Len(documents), NoStats)
    /\ UNCHANGED <<documents, search_history, document_ids, document_vectors,
                   vocabulary_, idf_, now, argsortTies, removed, bulk>>

\* Stats that empties the search history once it has reported it
StatsClearsHistory ==
    /\ Receive("stats", <<>>)
    /\ response' = Reply(200, <<>>, 0, GetStats)
    /\ search_history' = <<>>
    /\ UNCHANGED <<documents, document_ids, document_vectors,
                   vocabulary_, idf_, now, argsortTies, removed, bulk>>

\* the stats endpoint
Stats ==
    /\ Receive("stats", <<>>)
    /\ response' = Reply(200, <<>>, 0, GetStats)
    /\ UNCHANGED <<documents, search_history, document_ids, document_vectors,
                   vocabulary_, idf_, now, argsortTies, removed, bulk>>

\* the default page of list_documents
DefaultSkip == 0
DefaultLimit == 50

\* a call that reads the clock is possible while the clock is below MaxTime
Next ==
    \/ \E id \in Ids, p \in Payloads : now < MaxTime /\ AddDocument(id, p)
    \/ \E id \in Ids : DeleteDocument(id)
    \/ \E r \in SearchRequests :
          /\ SearchReturnsEarly \/ now < MaxTime
          /\ Search(r[1], r[2], r[3])
    \/ ListDocuments(DefaultSkip, DefaultLimit)
    \/ Stats

Spec == Init /\ [][Next]_vars

----------------------------------------------------------------------------
(* A corpus larger than a page of list_documents: documents 1, 2, ... with  *)
(* the same text are added in turn until the clock reaches MaxPagedDocs,    *)
(* and from then on the newest document can be deleted.                     *)

\* the largest corpus of SpecPaging
MaxPagedDocs == 51

PagedPayload == [title |-> "t1", content |-> co, metadata |-> "m1"]

NextPaging ==
    \/ /\ now <= MaxPagedDocs
       /\ AddDocument(Len(documents) + 1, PagedPayload)
    \/ /\ now > MaxPagedDocs
       /\ documents # <<>>
       /\ DeleteDocument(Len(documents))
    \/ ListDocuments(DefaultSkip, DefaultLimit)
    \/ Stats

SpecPaging == Init /\ [][NextPaging]_vars

----------------------------------------------------------------------------
(* A history longer than the window of get_stats: one document is added,    *)
(* and searches are recorded until the clock passes MaxSearches.            *)

\* the clock value up to which SpecHistory searches
MaxSearches == 7

\* a query that matches the document, one that has a term of no document,
\* and one without a token
HistoryQueries == {co, pl, a1}

NextHistory ==
    \/ /\ documents = <<>>
       /\ AddDocument("docA", PagedPayload)
    \/ \E q \in HistoryQueries :
          /\ now <= MaxSearches
          /\ Search(q, 1, FALSE)
    \/ Stats

SpecHistory == Init /\ [][NextHistory]_vars

----------------------------------------------------------------------------
(* Searches repeated on a corpus of up to three documents that is only      *)
(* added to: two documents can have the same text and so the same score, a  *)
(* third a lower one.                                                       *)

\* the clock value at which SpecRepeat stops adding and searching
MaxRepeatTime == 6

\* the ids of SpecRepeat
RepeatIds == Ids \cup {"docC"}

\* a text, and a longer text that shares a term with it
RepeatPayloads == { p \in Payloads : p.content \in {co, Cocowi} }

\* searches for a term of every document and for a term of some, with limits
\* below, at and above the size of the corpus
RepeatRequests == { <<q, k, FALSE>> : q \in {co, wi}, k \in {1, 3} }

NextRepeat ==
    \/ \E id \in RepeatIds, p \in RepeatPayloads :
          now < MaxRepeatTime /\ AddDocument(id, p)
    \/ \E r \in RepeatRequests :
          /\ SearchReturnsEarly \/ now < MaxRepeatTime
          /\ Search(r[1], r[2], r[3])

SpecRepeat == Init /\ [][NextRepeat]_vars

----------------------------------------------------------------------------
(* The ingestion layer: upload_file and bulk_upload in front of             *)
(* add_document.  A file has a name (stem and extension), the text its      *)
(* bytes decode to, and its size in bytes; a large file is modelled by its  *)
(* size, its text standing for the whole content.                           *)

\* file.filename is empty
NoFilename == [stem |-> "", ext |-> ""]

\* 5 * 1024 * 1024: the size limit of upload_file and bulk_upload
MaxUploadBytes == 5 * 1024 * 1024

\* allowed_extensions of upload_file
AllowedExtensions == {".txt", ".json", ".md"}

\* the limit of bulk_upload on the number of files
MaxBulkFiles == 10

\* os.path.splitext(filename)[1].lower()
LowerExt(ext) == IF ext = ".MD" THEN ".md" ELSE ext

\* not content.strip(): the text is empty or whitespace only
IsBlank(text) == \A i \in DOMAIN text : text[i] = " "

\* str.strip(), also what json.loads skips around a value
RECURSIVE Strip(_)
Strip(text) ==
    IF text = <<>> THEN <<>>
    ELSE IF Head(text) = " " THEN Strip(Tail(text))
    ELSE IF text[Len(text)] = " " THEN Strip(SubSeq(text, 1, Len(text) - 1))
    ELSE text

\* the digits of the JSON texts of the model
Digits == {"1", "2"}

\* json.loads accepts the text: of the texts of the model, an integer with
\* whitespace around it
IsJson(text) ==
    /\ Strip(text) # <<>>
    /\ \A i \in DOMAIN Strip(text) : Strip(text)[i] \in Digits

\* json.dumps(json.loads(text), indent=2) of an integer: its digits
JsonDumps(text) == Strip(text)

\* process_file raises ValueError; it dispatches on filename.endswith, which
\* is case sensitive, and only process_text_file checks for blank content
ProcessRaises(f) ==
    CASE f.filename.ext = ".json" -> ~IsJson(f.text)
      [] f.filename.ext = ".md"   -> FALSE
      [] OTHER                    -> IsBlank(f.text)

\* processed["content"]
ProcessContent(f) ==
    IF f.filename.ext = ".json" THEN JsonDumps(f.text) ELSE f.text

\* what the handlers pass to add_document besides the id
ProcessedPayload(f) ==
    [title    |-> f.filename,
     content  |-> ProcessContent(f),
     metadata |-> [filename |-> f.filename, size_bytes |-> f.size]]

\* hashlib.md5(f"{file.filename}{datetime.now()}").hexdigest()[:12]: one id
\* per file name and time
DocIdOf(f) == <<f.filename, now>>

\* the status upload_file answers before it calls add_document, 0 if it goes
\* on to call it
UploadRejects(f) ==
    IF f.filename = NoFilename THEN 400
    ELSE IF f.size > MaxUploadBytes THEN 413
    ELSE IF f.size = 0 THEN 400
    ELSE IF LowerExt(f.filename.ext) \notin AllowedExtensions THEN 415
    ELSE IF ProcessRaises(f) THEN 500
    ELSE 0

\* bulk_upload puts the file on its failed list before it calls add_document:
\* there is no check of the extension
BulkRejects(f) ==
    \/ f.filename = NoFilename
    \/ f.size > MaxUploadBytes
    \/ f.size = 0
    \/ ProcessRaises(f)

\* DocumentStore.add_document: the effect on the store
AddToStore(id, p) ==
    /\ now' = now + 1
    /\ documents' = PutDocument(documents,
                        [id |-> id, title |-> p.title, content |-> p.content,
                         metadata |-> p.metadata, added_at |-> now])
    /\ RebuildVectors(documents')
    /\ removed' = { r \in removed : r.id # id }

\* upload_file: an HTTPException goes out as it is, any other exception as 500
UploadFile(f) ==
    /\ Receive("upload", <<f>>)
    /\ IF UploadRejects(f) # 0
       THEN /\ response' = Reply(UploadRejects(f), <<>>, 0, NoStats)
            /\ UNCHANGED <<documents, document_ids, document_vectors, vocabulary_,
                           idf_, now, removed>>
       ELSE /\ AddToStore(DocIdOf(f), ProcessedPayload(f))
            /\ response' = Reply(IF RebuildRaises(documents') THEN 500 ELSE 200,
                                 <<>>, 0, NoStats)
    /\ UNCHANGED <<search_history, argsortTies, bulk>>

\* what bulk_upload returns
BulkReply(successful, failed) ==
    [status |-> 200, results |-> successful, total |-> Len(successful),
     stats |-> NoStats, failed |-> failed]

\* bulk_upload answers 400 at once: no file, or too many
BulkUploadRejects(files) == files = <<>> \/ Len(files) > MaxBulkFiles

\* bulk_upload up to its first await: 400 for no file or too many, otherwise
\* the call is in flight, next to the calls that already are
BulkUpload(files) ==
    /\ IF BulkUploadRejects(files)
       THEN /\ Receive("bulk", <<files>>)
            /\ response' = Reply(400, <<>>, 0, NoStats)
            /\ UNCHANGED bulk
       ELSE /\ bulk' = Append(bulk, [files |-> files, pending |-> files,
                                     successful |-> <<>>, failed |-> <<>>])
            /\ UNCHANGED <<request, response, repeated>>
    /\ UNCHANGED <<documents, search_history, document_ids, document_vectors,
                   vocabulary_, idf_, now, argsortTies, removed>>

\* the calls in flight without call c, which has returned
RemoveAt(calls, c) ==
    [i \in 1 .. Len(calls) - 1 |-> IF i < c THEN calls[i] ELSE calls[i + 1]]

\* one turn of the loop of call c of bulk_upload, which awaits the file
\* between the turns: the file goes on the failed list, or add_document is
\* called and an exception of the rebuild puts the file on the failed list;
\* the turn of the last file returns the two lists
BulkFile(c) ==
    /\ c \in DOMAIN bulk
    /\ LET call == bulk[c]
           f    == Head(call.pending)
           rest == Tail(call.pending)
           failedNow == [call EXCEPT !.pending = rest,
                                     !.failed = Append(@, f.filename)]
           doneNow   == [call EXCEPT !.pending = rest,
                                     !.successful = Append(@, f.filename)]
           after == IF BulkRejects(f) \/ RebuildRaises(documents')
                    THEN failedNow ELSE doneNow
       IN  /\ IF BulkRejects(f)
              THEN UNCHANGED <<documents, document_ids, document_vectors,
                               vocabulary_, idf_, now, removed>>
              ELSE AddToStore(DocIdOf(f), ProcessedPayload(f))
           /\ IF rest = <<>>
              THEN /\ bulk' = RemoveAt(bulk, c)
                   /\ Receive("bulk", <<call.files>>)
                   /\ response' = BulkReply(after.successful, after.failed)
              ELSE /\ bulk' = [bulk EXCEPT ![c] = after]
                   /\ UNCHANGED <<request, response, repeated>>
    /\ UNCHANGED <<search_history, argsortTies>>

\* the number of bulk_upload calls SpecUpload has in flight at a time
MaxBulkCalls == 2

\* the clock value at which SpecUpload stops adding documents
MaxUploads == 3

TxtFile(stem, ext, text, size) ==
    [filename |-> [stem |-> stem, ext |-> ext], text |-> text, size |-> size]

\* files the two handlers accept and files they are to reject: a text, a text
\* without a token, a blank text, a blank markdown file, a file of another
\* type, an upper-case extension, an empty file, a file above the size limit,
\* a JSON file, a file that is not JSON, a file without a name
Files ==
    { TxtFile("f1", ".txt",  co,         2),
      TxtFile("f2", ".txt",  a1,         1),
      TxtFile("f3", ".txt",  <<" ">>,    1),
      TxtFile("f4", ".md",   <<" ">>,    1),
      TxtFile("f5", ".pdf",  wi,         2),
      TxtFile("f6", ".MD",   co,         2),
      TxtFile("f7", ".txt",  <<>>,       0),
      TxtFile("f8", ".txt",  co,         MaxUploadBytes + 1),
      TxtFile("f9", ".json", <<" ", "1", "2">>, 3),
      TxtFile("f0", ".json", co,         2),
      TxtFile("",   "",      co,         2) }

\* the file of the model with this stem
FileOf(stem) == CHOOSE f \in Files : f.filename.stem = stem

\* the lists of files bulk_upload is called with: none, a file of another
\* type, a text without a token followed by a text, a blank text followed by
\* a text
BulkLists ==
    { <<>>,
      <<FileOf("f5")>>,
      <<FileOf("f2"), FileOf("f1")>>,
      <<FileOf("f3"), FileOf("f1")>> }

NextUpload ==
    \/ \E f \in Files :
          /\ UploadRejects(f) = 0 => now < MaxUploads
          /\ UploadFile(f)
    \/ \E files \in BulkLists :
          /\ ~BulkUploadRejects(files) => Len(bulk) < MaxBulkCalls
          /\ BulkUpload(files)
    \/ \E c \in DOMAIN bulk :
          /\ ~BulkRejects(Head(bulk[c].pending)) => now < MaxUploads
          /\ BulkFile(c)
    \/ \E id \in DocIds(documents) : DeleteDocument(id)

SpecUpload == Init /\ [][NextUpload]_vars

----------------------------------------------------------------------------
(* A corpus with more terms than max_features.  Documents 1, 2, ... are     *)
(* added in turn to the empty store.  Document 1 has TieTerms terms, each   *)
(* once; every later document has TermsPerDoc terms of its own, each twice, *)
(* and document CapDoc brings the corpus above max_features terms; the      *)
(* documents after it repeat its text.                                      *)

\* the largest corpus of SpecCap
MaxCapDocs == 42

\* the number of terms of document 1
TieTerms == 3

\* the number of terms of each later document
TermsPerDoc == 27

\* the first document with which the corpus has more than max_features terms
CapDoc == ((max_features - TieTerms) \div TermsPerDoc) + 2

\* the characters the terms are made of
CapChars == SubSeq(Alphabet, 1, 32)

\* term number k, two characters; the numbers follow the feature order
CapTerm(k) == <<CapChars[(k \div 32) + 1], CapChars[(k % 32) + 1]>>

\* the text of document n: its terms, each followed by a blank
CapText(n) ==
    IF n = 1
    THEN [i \in 1 .. 3 * TieTerms |->
            IF (i - 1) % 3 = 2 THEN " "
            ELSE CapTerm((i - 1) \div 3)[((i - 1) % 3) + 1]]
    ELSE LET first == TieTerms + TermsPerDoc * (Min(n, CapDoc) - 2)
         IN  [i \in 1 .. 6 * TermsPerDoc |->
                 IF (i - 1) % 3 = 2 THEN " "
                 ELSE CapTerm(first + (((i - 1) \div 3) % TermsPerDoc))[((i - 1) % 3) + 1]]

\* what the ingestion layer hands to add_document for document n
CapPayload(n) == [title |-> "t1", content |-> CapText(n), metadata |-> "m1"]

NextCap ==
    /\ Len(documents) < MaxCapDocs
    /\ AddDocument(Len(documents) + 1, CapPayload(Len(documents) + 1))

SpecCap == Init /\ [][NextCap]_vars

----------------------------------------------------------------------------
(* What the claims speak of *)

\* the documents of the corpus among the results of a response
CorpusResultsOf(resp) == SelectSeq(resp.results, LAMBDA r : r.type # "web")

CorpusResults == CorpusResultsOf(response)

\* the last request was a search that answered 200
SearchAnswered == request.op = "search" /\ response.status = 200

\* the terms of a text
TermsOf(text) == Range(Analyze(text))

\* the place of a document in the corpus (its insertion order)
PlaceOf(id) == IndexOf(documents, id)

----------------------------------------------------------------------------
(* C1 *)

\* C1: whenever the corpus holds no documents, a search answers without an
\* error and returns no document: the result list is empty and the total is 0
\* (a request that sets include_web gets the mock web result and nothing else)
C1_EmptyCorpusSearch ==
    (request.op = "search" /\ documents = <<>>) =>
        /\ response.status = 200
        /\ CorpusResults = <<>>
        /\ ~request.args[3] => (response.results = <<>> /\ response.total = 0)

\* the last document was removed, the vectors of the old corpus are still
\* there, and the query is a term of that corpus
C1_Witness ==
    /\ request.op = "search"
    /\ documents = <<>>
    /\ document_vectors # NoVectors
    /\ TermsOf(request.args[1]) \cap vocabulary_ # {}
    /\ response.results = <<>>

----------------------------------------------------------------------------
(* C2 *)

\* C2: a delete of an id that is not in the corpus answers 404 and leaves the
\* corpus, the id list, the vectors, the vocabulary and the history unchanged
C2_DeleteUnknown ==
    [][ (request'.op = "delete" /\ request'.args[1] \notin DocIds(documents)) =>
            /\ response'.status = 404
            /\ UNCHANGED <<documents, document_ids, document_vectors, vocabulary_,
                           idf_, search_history>> ]_vars

\* a delete answered 404 on a corpus with a document and a recorded search
C2_Witness ==
    /\ request.op = "delete"
    /\ response.status = 404
    /\ documents # <<>>
    /\ search_history # <<>>

----------------------------------------------------------------------------
(* C3 *)

\* the query of the last search has terms, all of them terms that only a
\* removed document had, and none of them is in a document of the corpus
QueryOnlyInRemoved ==
    /\ TermsOf(request.args[1]) # {}
    /\ \E r \in removed : TermsOf(request.args[1]) \subseteq r.terms
    /\ TermsOf(request.args[1]) \cap AllTerms(TextsOf(documents)) = {}

\* C3: no result of a search or of a list carries the id of a document that
\* was removed and not added again, and a search for a term that only a
\* removed document had returns no document
C3_RemovedNeverReturned ==
    /\ request.op \in {"search", "list"} =>
          \A r \in removed : \A k \in DOMAIN response.results :
              response.results[k].id # r.id
    /\ (request.op = "search" /\ QueryOnlyInRemoved) => CorpusResults = <<>>

\* a search, answered 200, for the term of a removed document while another
\* document is still in the corpus
C3_Witness ==
    /\ SearchAnswered
    /\ QueryOnlyInRemoved
    /\ documents # <<>>
    /\ response.results = <<>>

----------------------------------------------------------------------------
(* C4 *)

\* C4: every document a search returns has a score above 0 and shares a term
\* of the vocabulary with the query
C4_NoZeroScore ==
    request.op = "search" =>
        \A k \in DOMAIN CorpusResults :
            /\ CorpusResults[k].score > 0
            /\ TermsOf(request.args[1]) \cap TermsOf(CorpusResults[k].content)
                  \cap vocabulary_ # {}

\* a search with limit 2 over two documents returned only the one that matches
C4_Witness ==
    /\ SearchAnswered
    /\ request.args[2] = 2
    /\ Len(documents) = 2
    /\ Len(CorpusResults) = 1
    /\ \E i \in DOMAIN documents :
          TermsOf(documents[i].content) \cap TermsOf(request.args[1]) = {}

----------------------------------------------------------------------------
(* C5 *)

\* result k is the document with this id, scored above 0 and placed before
\* every returned document that has no term in common with the query
ReturnedFirst(id, k) ==
    /\ CorpusResults[k].id = id
    /\ CorpusResults[k].score > 0
    /\ \A j \in DOMAIN CorpusResults :
          TermsOf(CorpusResults[j].content) \cap TermsOf(request.args[1]) = {} => k < j

\* C5 as claimed, on the states whose last rebuild did not raise: a search with
\* a limit of 1 or more for the text of a document of the corpus returns that
\* document with a score above 0, before every document without a common term
C5_Original ==
    (request.op = "search" /\ request.args[2] >= 1 /\ idf_ # NotFitted) =>
        \A i \in DOMAIN documents :
            documents[i].content = request.args[1] =>
                \E k \in DOMAIN CorpusResults : ReturnedFirst(documents[i].id, k)

\* the number of other documents that score at least as high as the
\* document at place i for the query of the last search
Rivals(i) ==
    LET sims == Similarities(request.args[1])
    IN  Cardinality({ j \in DOMAIN documents \ {i} : sims[j] >= sims[i] })

\* C5 amended: a search for the text of a document of the corpus that has a
\* term of the vocabulary, with a limit of 1 or more that is greater than the
\* number of other documents scoring at least as high for that query,
\* returns that document with a score above 0, before every returned document
\* without a common term
C5_ExactTextFound ==
    (request.op = "search" /\ request.args[2] >= 1) =>
        \A i \in DOMAIN documents :
            (/\ documents[i].content = request.args[1]
             /\ TermsOf(documents[i].content) \cap vocabulary_ # {}
             /\ Rivals(i) < request.args[2]) =>
                \E k \in DOMAIN CorpusResults : ReturnedFirst(documents[i].id, k)

\* the text of one of two documents was searched with limit 1, the other
\* document has a term of the query and scores above 0 but lower, and the
\* first one came back alone
C5_Witness ==
    /\ SearchAnswered
    /\ request.args[2] = 1
    /\ Len(documents) = 2
    /\ Len(CorpusResults) = 1
    /\ \E i, j \in DOMAIN documents :
          /\ documents[i].content = request.args[1]
          /\ TermsOf(documents[j].content) \cap TermsOf(request.args[1]) # {}
          /\ Similarities(request.args[1])[j] > 0
          /\ Rivals(i) = 0
          /\ ReturnedFirst(documents[i].id, 1)

----------------------------------------------------------------------------
(* C6 *)

\* C6: an add that repeats the add handled just before it, with the same
\* arguments, leaves exactly one document under the id, the same ids in the
\* same order, and the same id list, vocabulary, idf and vectors
C6_AddTwice ==
    [][ (request.op = "add" /\ request'.op = "add" /\ request'.args = request.args) =>
            /\ Cardinality({ i \in DOMAIN documents' :
                               documents'[i].id = request.args[1] }) = 1
            /\ IdsOf(documents') = IdsOf(documents)
            /\ document_ids' = document_ids
            /\ vocabulary_' = vocabulary_
            /\ idf_' = idf_
            /\ document_vectors' = document_vectors ]_vars

\* the same add was handled twice in a row, on a corpus of two documents
\* whose rebuild succeeded
C6_Witness ==
    /\ repeated
    /\ request.op = "add"
    /\ response.status = 200
    /\ Len(documents) = 2

----------------------------------------------------------------------------
(* C7 *)

\* C7 as claimed: the document count of stats equals the number of documents
\* list returns; the last response is compared with what the other call
\* returns in the same state
C7_Original ==
    /\ request.op = "list" => Len(response.results) = GetStats.total_documents
    /\ request.op = "stats" =>
          response.stats.total_documents = Len(ListPage(DefaultSkip, DefaultLimit))

\* C7 amended: the document count of stats equals the total that list reports,
\* and equals the number of documents list returns while the corpus holds at
\* most DefaultLimit documents
C7_StatsCountsList ==
    /\ request.op = "list" =>
          /\ response.total = GetStats.total_documents
          /\ Len(documents) <= DefaultLimit =>
                Len(response.results) = GetStats.total_documents
    /\ request.op = "stats" =>
          /\ response.stats.total_documents = Len(documents)
          /\ Len(documents) <= DefaultLimit =>
                response.stats.total_documents
                    = Len(ListPage(DefaultSkip, DefaultLimit))

\* list answered with a full page after documents were added and removed
C7_Witness ==
    /\ request.op = "list"
    /\ removed # {}
    /\ Len(documents) = DefaultLimit
    /\ Len(response.results) = DefaultLimit

----------------------------------------------------------------------------
(* C8 *)

\* C8: a search that repeats the query and the limit of the search handled
\* just before it gets the same status and the same documents, in the same
\* order, with the same scores
C8_SearchTwice ==
    [][ (/\ request.op = "search"
         /\ request'.op = "search"
         /\ request'.args[1] = request.args[1]
         /\ request'.args[2] = request.args[2]) =>
            /\ response'.status = response.status
            /\ CorpusResultsOf(response') = CorpusResultsOf(response) ]_vars

\* the same search was handled twice in a row on a corpus of three documents,
\* both are in the history, and it returned the three documents, two of them
\* with the same score and the third with a lower one
C8_Witness ==
    /\ repeated
    /\ SearchAnswered
    /\ Len(search_history) >= 2
    /\ Len(documents) = 3
    /\ Len(CorpusResults) = 3
    /\ CorpusResults[1].score = CorpusResults[2].score
    /\ CorpusResults[2].score > CorpusResults[3].score

----------------------------------------------------------------------------
(* C9 *)

\* C9: of any two documents a search returns, the one listed earlier has a
\* score greater than or equal to the score of the one listed later
C9_ScoreDescending ==
    request.op = "search" =>
        \A i, j \in DOMAIN CorpusResults :
            i < j => CorpusResults[i].score >= CorpusResults[j].score

\* a search returned two documents with different scores
C9_Witness ==
    /\ SearchAnswered
    /\ Len(CorpusResults) = 2
    /\ CorpusResults[1].score > CorpusResults[2].score

----------------------------------------------------------------------------
(* C10 *)

\* C10 as claimed, for a limit of 1 or more: of two returned documents with
\* equal scores the one added to the corpus earlier is listed first, and a
\* document is left out by the limit in favour of an equal-scored one only if
\* that one was added earlier
C10_EarlierFirstOnTies ==
    (SearchAnswered /\ request.args[2] >= 1 /\ CorpusResults # <<>>) =>
        /\ \A i, j \in DOMAIN CorpusResults :
              (i < j /\ CorpusResults[i].score = CorpusResults[j].score) =>
                  PlaceOf(CorpusResults[i].id) < PlaceOf(CorpusResults[j].id)
        /\ \A k \in DOMAIN CorpusResults : \A i \in DOMAIN documents :
              (/\ \A j \in DOMAIN CorpusResults : CorpusResults[j].id # documents[i].id
               /\ Similarities(request.args[1])[i] = CorpusResults[k].score) =>
                  PlaceOf(CorpusResults[k].id) < i

----------------------------------------------------------------------------
(* C11 *)

\* the last search answered 200 and went past the early return: the
\* similarities of its query were computed and ranked
SearchRanked == SearchAnswered /\ ~SearchReturnsEarly

\* the similarity of the query of the last search with the document at place i
ScoreOfPlace(i) == Similarities(request.args[1])[i]

\* the places of the documents the last search did not return
OmittedPlaces ==
    { i \in DOMAIN documents :
        \A k \in DOMAIN CorpusResults : CorpusResults[k].id # documents[i].id }

\* the number of documents with a similarity above 0
NonZeroCount == Cardinality({ i \in DOMAIN documents : ScoreOfPlace(i) > 0 })

\* C11: a search with a limit of 1 or more returns at most limit documents,
\* as many as the limit and the number of documents with a score above 0
\* allow, and no omitted document with a score above 0 scores strictly higher
\* than a returned one
C11_TopLimit ==
    (SearchRanked /\ request.args[2] >= 1) =>
        /\ Len(CorpusResults) <= request.args[2]
        /\ Len(CorpusResults) = Min(request.args[2], NonZeroCount)
        /\ \A i \in OmittedPlaces : \A k \in DOMAIN CorpusResults :
              ScoreOfPlace(i) > 0 => ScoreOfPlace(i) <= CorpusResults[k].score

\* a search with limit 1 over two documents that both match the query with
\* different scores returned the higher one only
C11_Witness ==
    /\ SearchRanked
    /\ request.args[2] = 1
    /\ Len(documents) = 2
    /\ Len(CorpusResults) = 1
    /\ \E i \in OmittedPlaces :
          /\ ScoreOfPlace(i) > 0
          /\ ScoreOfPlace(i) < CorpusResults[1].score

----------------------------------------------------------------------------
(* C12 *)

\* C12 as claimed: every search appends exactly one entry with its query and
\* the time of the call to the history, so that the search count of stats
\* grows by one, whatever it returns and also on an empty corpus; and no step
\* removes or changes an entry the history already has
C12_SearchAppendsOne ==
    [][ /\ request'.op = "search" =>
              /\ search_history' = Append(search_history,
                                          [query |-> request'.args[1], timestamp |-> now])
              /\ GetStats'.total_searches = GetStats.total_searches + 1
        /\ Len(search_history') >= Len(search_history)
        /\ SubSeq(search_history', 1, Len(search_history)) = search_history ]_vars

----------------------------------------------------------------------------
(* C13 *)

\* C13 as claimed: in every state in which the corpus holds no documents there
\* is no vocabulary, stats reports unique_terms 0, and a stats call answered
\* in that state reported 0
C13_EmptyHasNoVocabulary ==
    documents = <<>> =>
        /\ vocabulary_ = NoVocabulary
        /\ GetStats.unique_terms = 0
        /\ request.op = "stats" => response.stats.unique_terms = 0

----------------------------------------------------------------------------
(* C14 *)

\* C14 as claimed: after every add or remove that answered 200 the id list
\* holds the ids of the corpus, each once, in corpus order, and there is one
\* document vector per id, the transform of the current text of that document
\* with the current vocabulary and idf
C14_ModelMatchesCorpus ==
    (request.op \in {"add", "delete"} /\ response.status = 200) =>
        /\ document_ids = IdsOf(documents)
        /\ \A i, j \in DOMAIN document_ids : i # j => document_ids[i] # document_ids[j]
        /\ DOMAIN document_vectors = DOMAIN document_ids
        /\ \A i \in DOMAIN documents :
              document_vectors[i] = TransformOne(vocabulary_, idf_, documents[i].content)

----------------------------------------------------------------------------
(* C15 *)

\* the id list, the vocabulary, the idf and the vectors are those of one
\* completed rebuild of the corpus as it is
BuiltFromCorpus ==
    /\ document_ids = IdsOf(documents)
    /\ vocabulary_ \in FitVocabulary(TextsOf(documents))
    /\ idf_ = FitIdf(vocabulary_, TextsOf(documents))
    /\ document_vectors = FitTransform(vocabulary_, TextsOf(documents))

\* C15 as claimed: the handlers run one at a time between their await points,
\* in any order, and every search that goes on to read the id list, the
\* vocabulary and the vectors finds them built by one completed rebuild of
\* the corpus it reads, never a corpus changed by an add or a remove whose
\* rebuild did not complete
C15_SearchSeesCompletedRebuild ==
    (request.op = "search" /\ ~SearchReturnsEarly) => BuiltFromCorpus

----------------------------------------------------------------------------
(* C16 *)

\* C16 as claimed: every add of a non-empty id with a non-empty text answers
\* without an error, every remove of an id of the corpus answers without an
\* error, and a remove of an unknown id answers not-found
C16_RebuildNeverFails ==
    [][ /\ (/\ request'.op = "add"
            /\ request'.args[1] # ""
            /\ request'.args[2].content # <<>>) => response'.status = 200
        /\ request'.op = "delete" =>
              response'.status = IF request'.args[1] \in DocIds(documents)
                                 THEN 200 ELSE 404 ]_vars

----------------------------------------------------------------------------
(* C17 *)

\* C17: a stats call leaves the corpus, the id list, the vectors, the
\* vocabulary, the idf and the history unchanged, and a stats call that
\* follows a stats call returns the same summary
C17_StatsPureRead ==
    [][ /\ request'.op = "stats" =>
              UNCHANGED <<documents, document_ids, document_vectors, vocabulary_,
                          idf_, search_history>>
        /\ (request.op = "stats" /\ request'.op = "stats") =>
              response'.stats = response.stats ]_vars

\* stats was called twice in a row on a corpus with a document and a recorded
\* search, and reported both
C17_Witness ==
    /\ repeated
    /\ request.op = "stats"
    /\ response.stats.total_documents >= 1
    /\ response.stats.total_searches >= 1
    /\ response.stats.recent_searches # <<>>

----------------------------------------------------------------------------
(* C18 *)

\* C18: an add that answered 200 leaves exactly one document under its id,
\* with the title, the text and the metadata of the call and the time of the
\* call as added_at, also when it replaces a document; the corpus holds the
\* ids it held and this one, every other document is as it was, and the
\* history is unchanged
C18_AddStoresDocument ==
    [][ (request'.op = "add" /\ response'.status = 200) =>
            LET id == request'.args[1]
                p  == request'.args[2]
            IN  /\ Cardinality({ i \in DOMAIN documents' : documents'[i].id = id }) = 1
                /\ documents'[IndexOf(documents', id)]
                      = [id |-> id, title |-> p.title, content |-> p.content,
                         metadata |-> p.metadata, added_at |-> now]
                /\ DocIds(documents') = DocIds(documents) \cup {id}
                /\ \A i \in DOMAIN documents :
                      documents[i].id # id =>
                          documents'[IndexOf(documents', documents[i].id)] = documents[i]
                /\ search_history' = search_history ]_vars

\* an add answered 200 after it replaced the first of two documents: that
\* document is now the newer one and carries a new text
C18_Witness ==
    /\ request.op = "add"
    /\ response.status = 200
    /\ Len(documents) = 2
    /\ documents[1].id = request.args[1]
    /\ documents[1].added_at > documents[2].added_at
    /\ documents[1].content = request.args[2].content
    /\ documents[1].content # documents[2].content

----------------------------------------------------------------------------
(* C19 *)

\* C19: a list call returns the documents of the corpus (all of them while
\* they fit the default page), of any two returned documents the one listed
\* earlier has an added_at later than or equal to the other's, and a list
\* call that follows an add, also an add under an id the corpus already had,
\* returns the added document first
C19_ListNewestFirst ==
    [][ request'.op = "list" =>
            /\ Len(documents) <= DefaultLimit =>
                  Range(response'.results) = Range(documents)
            /\ \A i, j \in DOMAIN response'.results :
                  i < j => response'.results[i].added_at >= response'.results[j].added_at
            /\ request.op = "add" => response'.results[1].id = request.args[1] ]_vars

\* list returned two documents and the first one, strictly newer, is the one
\* the corpus has held longest: it was added again after the other one
C19_Witness ==
    /\ request.op = "list"
    /\ Len(response.results) = 2
    /\ response.results[1].id = documents[1].id
    /\ response.results[1].added_at > response.results[2].added_at

----------------------------------------------------------------------------
(* C20 *)

\* C20: the recent queries of a stats answer are the last min(5, n) entries
\* of the history of n recorded searches, the most recent first, and none
\* when no search was recorded
C20_RecentSearches ==
    request.op = "stats" =>
        LET n      == Len(search_history)
            recent == response.stats.recent_searches
        IN  /\ Len(recent) = Min(5, n)
            /\ \A i \in DOMAIN recent : recent[i] = search_history[n + 1 - i]
            /\ n = 0 => recent = <<>>

\* stats answered with five recent queries out of a longer history: the
\* last entry comes first and the oldest entry is not among them
C20_Witness ==
    /\ request.op = "stats"
    /\ Len(search_history) > 5
    /\ Len(response.stats.recent_searches) = 5
    /\ response.stats.recent_searches[1] = search_history[Len(search_history)]
    /\ \A i \in 1 .. 5 : response.stats.recent_searches[i] # search_history[1]

----------------------------------------------------------------------------
(* C21 *)

\* the tokens of a text that are terms of the vocabulary, in order
KnownTokens(text) == SelectSeq(Analyze(text), LAMBDA t : t \in vocabulary_)

\* the tokens as one text, separated by blanks
RECURSIVE JoinTokens(_)
JoinTokens(toks) ==
    IF toks = <<>> THEN <<>>
    ELSE IF Len(toks) = 1 THEN toks[1]
    ELSE toks[1] \o <<" ">> \o JoinTokens(Tail(toks))

\* a query without its terms outside the vocabulary
KnownPart(query) == JoinTokens(KnownTokens(query))

\* C21: a search leaves the corpus, the id list, the vectors, the vocabulary
\* and the idf unchanged, so no term of the query joins the vocabulary; and
\* every document it returns carries the score the document has for the query
\* without its terms outside the vocabulary, as every document of the corpus
\* scores the same for both
C21_SearchChangesHistoryOnly ==
    [][ request'.op = "search" =>
            /\ UNCHANGED <<documents, document_ids, document_vectors, vocabulary_, idf_>>
            /\ (response'.status = 200 /\ ~SearchReturnsEarly) =>
                  LET query == request'.args[1]
                      found == CorpusResultsOf(response')
                  IN  /\ \A i \in DOMAIN documents :
                            Similarities(query)[i] = Similarities(KnownPart(query))[i]
                      /\ \A k \in DOMAIN found :
                            found[k].score
                                = Similarities(KnownPart(query))[PlaceOf(found[k].id)] ]_vars

\* a search whose query has a term of the vocabulary and a term outside it
\* returned a document, and that term is still outside the vocabulary
C21_Witness ==
    /\ SearchRanked
    /\ TermsOf(request.args[1]) \cap vocabulary_ # {}
    /\ TermsOf(request.args[1]) \ vocabulary_ # {}
    /\ CorpusResults # <<>>
    /\ search_history # <<>>

----------------------------------------------------------------------------
(* C22 *)

\* C22 as claimed: whenever upload_file or bulk_upload has called
\* add_document, that is whenever a step has put a document into the corpus,
\* the text of the document is not blank, the file it came from has at most
\* MaxUploadBytes bytes, and the extension of the file, in lower case, is one
\* of the allowed ones
C22_OnlyValidFilesAdded ==
    [][ \A i \in DOMAIN documents' :
            documents'[i] \notin Range(documents) =>
                /\ ~IsBlank(documents'[i].content)
                /\ documents'[i].metadata.size_bytes <= MaxUploadBytes
                /\ LowerExt(documents'[i].metadata.filename.ext)
                      \in AllowedExtensions ]_vars

----------------------------------------------------------------------------
(* C24 *)

\* the step is a turn of call c of bulk_upload that puts its file on the
\* failed list: the call goes on with a longer list, or returns one
FailedTurn(c) ==
    \/ /\ Len(bulk') = Len(bulk)
       /\ Len(bulk'[c].failed) > Len(bulk[c].failed)
    \/ /\ Len(bulk') < Len(bulk)
       /\ bulk' = RemoveAt(bulk, c)
       /\ Len(response'.failed) > Len(bulk[c].failed)

\* C24 as claimed: a step of upload_file that answers 500, and a turn of
\* bulk_upload that puts its file on the failed list, leave the corpus, the
\* id list and the vectors as they were
C24_FailedUploadChangesNothing ==
    [][ /\ (request'.op = "upload" /\ bulk' = bulk /\ response'.status = 500) =>
              UNCHANGED <<documents, document_ids, document_vectors>>
        /\ \A c \in DOMAIN bulk :
              FailedTurn(c) => UNCHANGED <<documents, document_ids, document_vectors>> ]_vars

----------------------------------------------------------------------------
(* C25 *)

\* row i has its weights above 0 at the terms of this text and nowhere else,
\* as a row that the text produced has
RowOfText(i, text) ==
    \A t \in DOMAIN document_vectors[i] :
        document_vectors[i][t] > 0 <=> Count(t, text) > 0

\* C25 as claimed: in every state with document vectors the id list has as
\* many entries as there are rows, and entry i, where it is the id of a
\* document of the corpus, is the id of the document whose text produced row
\* i; and a search that reads the rows finds an id of the corpus for every row
C25_IdsMatchRows ==
    document_vectors # NoVectors =>
        /\ Len(document_ids) = Len(document_vectors)
        /\ \A i \in DOMAIN document_ids :
              document_ids[i] \in DocIds(documents) =>
                  RowOfText(i, documents[PlaceOf(document_ids[i])].content)
        /\ (request.op = "search" /\ ~SearchReturnsEarly) =>
              \A i \in DOMAIN document_vectors : document_ids[i] \in DocIds(documents)

----------------------------------------------------------------------------
(* C26 *)

\* C26 as claimed: for every max_results the endpoint accepts, 0 and negative
\* values too, a search returns at most max(0, max_results) documents of the
\* corpus
C26_AtMostMaxResults ==
    request.op = "search" => Len(CorpusResults) <= Max(0, request.args[2])

----------------------------------------------------------------------------
(* C23 *)

\* C23: the vocabulary never has more than max_features terms, and the
\* vocabulary fitted to the corpus holds terms of the corpus, all of them or
\* max_features of them, and no term left out is counted more often over the
\* corpus than a term kept
C23_VocabularyCapped ==
    /\ Cardinality(vocabulary_) <= max_features
    /\ (document_ids = IdsOf(documents) /\ ~FitFails(TextsOf(documents))) =>
          LET texts == TextsOf(documents)
              terms == AllTerms(texts)
              left  == terms \ vocabulary_
              tfs   == TermCounts(terms, texts)
          IN  /\ vocabulary_ \subseteq terms
              /\ Cardinality(vocabulary_) = Min(max_features, Cardinality(terms))
              /\ left # {} =>
                    \A t \in vocabulary_ : \A u \in left : tfs[t] >= tfs[u]

\* the corpus has more terms than max_features and the vocabulary fitted to
\* it has max_features of them: of the terms counted once it keeps one that
\* is neither the first nor the last in feature order and leaves out those,
\* and it keeps the last term of all, which is counted more often
C23_Witness ==
    /\ request.op = "add"
    /\ response.status = 200
    /\ Cardinality(vocabulary_) = max_features
    /\ LET texts == TextsOf(documents)
           left  == AllTerms(texts) \ vocabulary_
       IN  /\ \A u \in left : TermFrequency(u, texts) = 1
           /\ \E t \in vocabulary_ :
                 /\ \E u \in left : TermBefore(u, t)
                 /\ \E u \in left : TermBefore(t, u)
                 /\ TermFrequency(t, texts) = 1
           /\ CapTerm(max_features + 1) \in vocabulary_
           /\ TermFrequency(CapTerm(max_features + 1), texts) > 1

====
